---- MODULE Spec2Model ----
(***************************************************************************)
(* Model of src/v3.py: the image validator (validate_image), the Gemini    *)
(* analyzer (GeminiVisionAnalyzer) and the Streamlit script main() that    *)
(* drives them, one script run per user interaction and one thread per     *)
(* browser session.                                                        *)
(*                                                                         *)
(* Strings are sequences of tokens, so that "prefix" + str(e) is a real    *)
(* concatenation (\o) and "starts with" / "is empty" are computed.         *)
(***************************************************************************)
EXTENDS Integers, Sequences, FiniteSets, TLC

VARIABLES
  vin,        \* SpecValidate: the argument handed to validate_image
  vout,       \* SpecValidate: what validate_image did with it
  ain,        \* SpecAnalyze: question, image and behaviour of the remote side
  aout,       \* SpecAnalyze: what analyze_image did with it
  pc,         \* Spec: per session, position of the script thread in main()
  api_key,    \* Spec: per session, the sidebar text_input (line 124)
  uploaded_file, \* Spec: per session, the file_uploader value (line 144)
  question,   \* Spec: per session, the text_area value (line 156)
  analyze,    \* Spec: per session, the button value of this run (line 162)
  is_valid,   \* Spec: per session, local is_valid of the current run
  image,      \* Spec: per session, local image of the current run
  analyzer,   \* Spec: per session, the GeminiVisionAnalyzer of the current run
  rendered,   \* Spec: per session, the boxes rendered by the current run
  genai,      \* Spec: module-level state of google.generativeai
  reads,      \* Spec: per session, validate_image decodes of the current handle
  runReads,   \* Spec: per session, the same, within the current script run
  invoked,    \* Spec: per session, analyze_image calls of the current run
  requests,   \* Spec: per session, the remote request issued by this run
  initError   \* Spec: per session, the error raised by the constructor

vars == <<vin, vout, ain, aout, pc, api_key, uploaded_file, question, analyze,
          is_valid, image, analyzer, rendered, genai, reads, runReads,
          invoked, requests, initError>>

valVars == <<vin, vout>>
anaVars == <<ain, aout>>
appVars == <<pc, api_key, uploaded_file, question, analyze, is_valid, image,
             analyzer, rendered, genai, reads, runReads, invoked, requests,
             initError>>

\* Python's None (a record, so that it compares with handles and images).
None == [none |-> TRUE]

\* ------------------------------------------------------------------------
\* Strings
\* ------------------------------------------------------------------------
StartsWith(s, p) == Len(s) >= Len(p) /\ SubSeq(s, 1, Len(p)) = p

\* ------------------------------------------------------------------------
\* PIL images.  An image is its mode, its pixel dimensions, one
\* representative pixel and whether the pixel data can be loaded (Image.open
\* only identifies the file; the pixel data is read on first use).
\* ------------------------------------------------------------------------
MaxBytes == 10 * 1024 * 1024

Palette == <<  <<0, 0, 0>>, <<1, 0, 1>>  >>

\* The modes a decoder can hand back, by what they carry.
AlphaModes   == {"RGBA", "LA", "PA"}
PaletteModes == {"P", "PA"}
PlainModes   == {"RGB", "L"}
Modes        == AlphaModes \cup PaletteModes \cup PlainModes

PixelsOf(mode) ==
  CASE mode = "RGB"  -> { <<0, 0, 0>>, <<1, 0, 1>> }
    [] mode = "RGBA" -> { <<1, 0, 1, 0>>, <<0, 1, 0, 1>> }
    [] mode = "LA"   -> { <<1, 0>>, <<0, 1>> }
    [] mode = "P"    -> { <<1>>, <<2>> }
    [] mode = "PA"   -> { <<1, 0>>, <<2, 1>> }
    [] mode = "L"    -> { <<0>>, <<1>> }

Dims == { <<1, 1>>, <<2, 1>> }

\* image.convert("RGB") on the pixel: alpha is dropped, grey is replicated,
\* a palette index is looked up.
ConvertPixelRGB(mode, px) ==
  CASE mode = "RGB"  -> px
    [] mode = "RGBA" -> <<px[1], px[2], px[3]>>
    [] mode = "LA"   -> <<px[1], px[1], px[1]>>
    [] mode = "L"    -> <<px[1], px[1], px[1]>>
    [] mode = "P"    -> Palette[px[1]]
    [] mode = "PA"   -> Palette[px[1]]

\* image.convert("RGB"): loads the pixel data (raising when it cannot be
\* read) and returns a new RGB image of the same dimensions.
Convert(img) ==
  IF img.loadable
    THEN [raised |-> FALSE,
          image  |-> [mode |-> "RGB", dims |-> img.dims,
                      px |-> ConvertPixelRGB(img.mode, img.px),
                      loadable |-> TRUE]]
    ELSE [raised |-> TRUE, diag |-> <<"image file is truncated">>]

\* ------------------------------------------------------------------------
\* Uploaded-file handles: a declared size (or no size attribute at all), and
\* bytes that Image.open either rejects with a diagnostic or identifies.
\* ------------------------------------------------------------------------
Sizes == {0, MaxBytes - 1, MaxBytes, MaxBytes + 1, 12 * 1024 * 1024}

OpenDiags == { <<>>, <<"cannot identify image file">> }

Contents ==
  [kind : {"bad"}, diag : OpenDiags]
  \cup
  UNION { [kind : {"img"}, mode : {m}, dims : Dims, px : PixelsOf(m),
           loadable : BOOLEAN] : m \in Modes }

UploadedFiles == [hasSize : {TRUE}, size : Sizes, content : Contents]
                 \cup [hasSize : {FALSE}, content : Contents]

\* Image.open(uploaded_file)
ImageOpen(f) ==
  IF f.content.kind = "bad"
    THEN [raised |-> TRUE, diag |-> f.content.diag]
    ELSE [raised |-> FALSE,
          image  |-> [mode |-> f.content.mode, dims |-> f.content.dims,
                      px |-> f.content.px, loadable |-> f.content.loadable]]

\* ------------------------------------------------------------------------
\* validate_image.  The result carries the returned triple and what the call
\* did on the way: whether the size attribute was read, how many Image.open
\* calls were made, and whether an exception left the function.
\* ------------------------------------------------------------------------
\* Variant: the file is opened a second time before returning.
VReturnReopen(ok, img, msg, sizeRead, opens) ==
  [ok |-> ok, image |-> img, msg |-> msg, sizeRead |-> sizeRead,
   opens |-> 2 * opens, raised |-> FALSE]

VReturn(ok, img, msg, sizeRead, opens) ==
  [ok |-> ok, image |-> img, msg |-> msg, sizeRead |-> sizeRead,
   opens |-> opens, raised |-> FALSE]

VRaise(diag, sizeRead, opens) ==
  [raised |-> TRUE, diag |-> diag, sizeRead |-> sizeRead, opens |-> opens]

\* Variant: the comparison is >= instead of >.
SizeExceedsInclusive(f) == f.size >= MaxBytes

\* line 38: uploaded_file.size > 10 * 1024 * 1024
SizeExceeds(f) == f.size > MaxBytes

\* Variant: every mode is converted.
NeedsConvertAlways(mode) == TRUE

\* line 41: image.mode in ["RGBA", "LA", "P"]
NeedsConvert(mode) == mode \in {"RGBA", "LA", "P"}

\* lines 41-42: the mode normalisation applied to an opened image
Normalize(img) ==
  IF NeedsConvert(img.mode) THEN Convert(img)
                            ELSE [raised |-> FALSE, image |-> img]

\* lines 38-43: the body of the try block; an exception of any statement
\* leaves the block.
ValidateTry(f) ==
  IF ~f.hasSize THEN VRaise(<<"no attribute 'size'">>, TRUE, 0)
  ELSE IF SizeExceeds(f)
    THEN VReturn(FALSE, None, <<"File size exceeds 10MB.">>, TRUE, 0)
  ELSE LET o == ImageOpen(f) IN
    IF o.raised THEN VRaise(o.diag, TRUE, 1)
    ELSE LET n == Normalize(o.image) IN
      IF n.raised THEN VRaise(n.diag, TRUE, 1)
      ELSE VReturn(TRUE, n.image, <<"Image validated successfully.">>,
                   TRUE, 1)

\* Variant: the handler lets the exception go on.
ValidateExceptReraise(t) == t

\* lines 44-45: except Exception as e
ValidateExcept(t) ==
  VReturn(FALSE, None, <<"Invalid image file: ">> \o t.diag,
          t.sizeRead, t.opens)

\* Variant: without the None test of lines 35-36, the size read fails on None
\* inside the try block.
validate_image_NoNoneTest(f) ==
  LET t == IF f = None
             THEN VRaise(<<"'NoneType' object has no attribute 'size'">>,
                         TRUE, 0)
             ELSE ValidateTry(f)
  IN IF t.raised THEN ValidateExcept(t) ELSE t

validate_image(f) ==
  IF f = None
    THEN VReturn(FALSE, None, <<"No file uploaded.">>, FALSE, 0)
    ELSE LET t == ValidateTry(f) IN
           IF t.raised THEN ValidateExcept(t) ELSE t

\* ------------------------------------------------------------------------
\* google.generativeai, as far as the analyzer uses it.  The remote side of
\* one generate_content call either fails (while the request is built, in
\* the call, or when response.text is read) or answers with a text.
\* ------------------------------------------------------------------------
Texts == { <<>>, <<"A red bicycle.">>, <<"No response from model.">>,
           <<"Error: ", "quota exceeded">> }

Diags == { <<>>, <<"quota exceeded">> }

Remotes == [fault : {"none"}, text : Texts]
           \cup [fault : {"prompt", "call", "text"}, diag : Diags]

Questions == { <<>>, <<" ">>, <<"What is in this picture?">> }

\* str.strip() of the question: whitespace tokens are dropped at both ends
\* (the questions here are at most one token long).
Strip(q) == IF q = <<" ">> THEN <<>> ELSE q

\* line 24: the instruction template
Prompt(q) == <<"Please analyze the picture and answer the question: ">> \o q

AReturn(success, result, calls) ==
  [success |-> success, result |-> result, calls |-> calls,
   raised |-> FALSE]

ARaise(diag, calls) == [raised |-> TRUE, diag |-> diag, calls |-> calls]

\* Variant: the test is "is not None", which any text passes.
TruthyNotNone(text) == TRUE

\* line 26: if response.text
Truthy(text) == text # <<>>

\* lines 24-29: the body of the try block
AnalyzeTry(img, q, remote) ==
  IF remote.fault = "prompt" THEN ARaise(remote.diag, 0)
  ELSE IF remote.fault \in {"call", "text"} THEN ARaise(remote.diag, 1)
  ELSE IF Truthy(remote.text) THEN AReturn(TRUE, remote.text, 1)
  ELSE AReturn(FALSE, <<"No response from model.">>, 1)

\* Variant: the handler calls the model a second time before giving up.
AnalyzeExceptRetry(t) == AReturn(FALSE, <<"Error: ">> \o t.diag, t.calls + 1)

\* lines 30-31: except Exception as e
AnalyzeExcept(t) == AReturn(FALSE, <<"Error: ">> \o t.diag, t.calls)

analyze_image(img, q, remote) ==
  LET t == AnalyzeTry(img, q, remote) IN
    IF t.raised THEN AnalyzeExcept(t) ELSE t

\* ------------------------------------------------------------------------
\* The state of the Streamlit application when nothing has happened yet.
\* ------------------------------------------------------------------------
Sessions == {"s1", "s2"}

AppInit ==
  /\ pc = [s \in Sessions |-> "idle"]
  /\ api_key = [s \in Sessions |-> <<>>]
  /\ uploaded_file = [s \in Sessions |-> None]
  /\ question = [s \in Sessions |-> <<>>]
  /\ analyze = [s \in Sessions |-> FALSE]
  /\ is_valid = [s \in Sessions |-> FALSE]
  /\ image = [s \in Sessions |-> None]
  /\ analyzer = [s \in Sessions |-> None]
  /\ rendered = [s \in Sessions |-> <<>>]
  /\ genai = [api_key |-> None, client |-> None]
  /\ reads = [s \in Sessions |-> 0]
  /\ runReads = [s \in Sessions |-> 0]
  /\ invoked = [s \in Sessions |-> 0]
  /\ requests = [s \in Sessions |-> None]
  /\ initError = [s \in Sessions |-> None]

\* ------------------------------------------------------------------------
\* SpecValidate: validate_image as a function of its argument.
\* ------------------------------------------------------------------------
ValidateInputs == UploadedFiles \cup {None}

InitValidate ==
  /\ vin \in ValidateInputs
  /\ vout = None
  /\ ain = None /\ aout = None
  /\ AppInit

CallValidate ==
  /\ vout = None
  /\ vout' = validate_image(vin)
  /\ UNCHANGED <<vin, anaVars, appVars>>

NextUpload ==
  /\ vout # None
  /\ vin' \in ValidateInputs
  /\ vout' = None
  /\ UNCHANGED <<anaVars, appVars>>

NextValidate == CallValidate \/ NextUpload

SpecValidate == InitValidate /\ [][NextValidate]_vars

\* ------------------------------------------------------------------------
\* SpecAnalyze: analyze_image as a function of its arguments and of what the
\* remote side does.
\* ------------------------------------------------------------------------
AnalyzeImages ==
  { [mode |-> m, dims |-> <<1, 1>>, px |-> CHOOSE x \in PixelsOf(m) : TRUE,
     loadable |-> TRUE] : m \in {"RGB", "L"} }

AnalyzeInputs == [image : AnalyzeImages, question : Questions,
                  remote : Remotes]

InitAnalyze ==
  /\ ain \in AnalyzeInputs
  /\ aout = None
  /\ vin = None /\ vout = None
  /\ AppInit

CallAnalyze ==
  /\ aout = None
  /\ aout' = analyze_image(ain.image, ain.question, ain.remote)
  /\ UNCHANGED <<ain, valVars, appVars>>

NextQuestion ==
  /\ aout # None
  /\ ain' \in AnalyzeInputs
  /\ aout' = None
  /\ UNCHANGED <<valVars, appVars>>

NextAnalyze == CallAnalyze \/ NextQuestion

SpecAnalyze == InitAnalyze /\ [][NextAnalyze]_vars

\* ------------------------------------------------------------------------
\* Spec: the Streamlit script main().  Every widget interaction of a session
\* starts one run of the script in that session's thread; the threads of the
\* sessions interleave statement by statement and share the imported
\* google.generativeai module.
\* ------------------------------------------------------------------------
\* A run that is not an upload starts only while at most MaxReads - 2
\* decodes of the current handle have been counted, which keeps the count of
\* decodes of one handle finite.
MaxReads == 3

\* Each session's user owns one credential, different from the other's.
Credential(s) == IF s = "s1" THEN <<"key-A">> ELSE <<"key-B">>

AppFiles ==
  { f \in UploadedFiles :
      /\ f.hasSize /\ f.size \in {MaxBytes, MaxBytes + 1}
      /\ \/ /\ f.content.kind = "bad" /\ f.content.diag # <<>>
            /\ f.size = MaxBytes
         \/ /\ f.content.kind = "img" /\ f.content.mode = "RGB"
            /\ f.content.dims = <<1, 1>> /\ f.content.loadable
            /\ f.content.px[1] = 1 }

AppRemotes ==
  { r \in Remotes :
      \/ r.fault = "none" /\ r.text = <<"A red bicycle.">>
      \/ r.fault = "call" /\ r.diag # <<>> }

InitDiags == { <<"invalid api key">> }

\* What the user types into the question box: blanks only, or a question.
AppQuestions == { q \in Questions : q # <<>> }

Box(kind, text) == [box |-> kind, text |-> text]

\* The start of a script run: the locals of the previous run are gone.
StartRun(s, clicked) ==
  /\ pc[s] = "idle"
  /\ pc' = [pc EXCEPT ![s] = "preview"]
  /\ analyze' = [analyze EXCEPT ![s] = clicked]
  /\ is_valid' = [is_valid EXCEPT ![s] = FALSE]
  /\ image' = [image EXCEPT ![s] = None]
  /\ analyzer' = [analyzer EXCEPT ![s] = None]
  /\ rendered' = [rendered EXCEPT ![s] = <<>>]
  /\ runReads' = [runReads EXCEPT ![s] = 0]
  /\ invoked' = [invoked EXCEPT ![s] = 0]
  /\ requests' = [requests EXCEPT ![s] = None]
  /\ initError' = [initError EXCEPT ![s] = None]
  /\ UNCHANGED <<valVars, anaVars, genai>>

\* line 124: the user types a key (or clears it)
SetApiKey(s) ==
  /\ reads[s] + 2 <= MaxReads
  /\ \E k \in {Credential(s), <<>>} :
       /\ k # api_key[s]
       /\ api_key' = [api_key EXCEPT ![s] = k]
  /\ StartRun(s, FALSE)
  /\ UNCHANGED <<uploaded_file, question, reads>>

\* line 144: the user uploads a file; the uploader hands out a new handle
Upload(s) ==
  /\ \E f \in AppFiles : uploaded_file' = [uploaded_file EXCEPT ![s] = f]
  /\ reads' = [reads EXCEPT ![s] = 0]
  /\ StartRun(s, FALSE)
  /\ UNCHANGED <<api_key, question>>

\* line 144: the user removes the uploaded file
RemoveUpload(s) ==
  /\ uploaded_file[s] # None
  /\ uploaded_file' = [uploaded_file EXCEPT ![s] = None]
  /\ reads' = [reads EXCEPT ![s] = 0]
  /\ StartRun(s, FALSE)
  /\ UNCHANGED <<api_key, question>>

\* line 156: the user edits the question
SetQuestion(s) ==
  /\ reads[s] + 2 <= MaxReads
  /\ \E q \in AppQuestions :
       /\ q # question[s]
       /\ question' = [question EXCEPT ![s] = q]
  /\ StartRun(s, FALSE)
  /\ UNCHANGED <<api_key, uploaded_file, reads>>

\* line 162: the user presses the button
ClickAnalyze(s) ==
  /\ reads[s] + 2 <= MaxReads
  /\ StartRun(s, TRUE)
  /\ UNCHANGED <<api_key, uploaded_file, question, reads>>

\* The end of a script run.
EndRun(s) == pc' = [pc EXCEPT ![s] = "idle"]

Render(s, kind, text) ==
  rendered' = [rendered EXCEPT ![s] = Append(@, Box(kind, text))]

\* lines 146-152: the preview of the uploaded file
Preview(s) ==
  /\ pc[s] = "preview"
  /\ pc' = [pc EXCEPT ![s] = "button"]
  /\ IF uploaded_file[s] # None
       THEN LET r == validate_image(uploaded_file[s]) IN
         /\ is_valid' = [is_valid EXCEPT ![s] = r.ok]
         /\ image' = [image EXCEPT ![s] = r.image]
         /\ reads' = [reads EXCEPT ![s] = @ + r.opens]
         /\ runReads' = [runReads EXCEPT ![s] = @ + r.opens]
         /\ Render(s, IF r.ok THEN "success" ELSE "error", r.msg)
       ELSE UNCHANGED <<is_valid, image, reads, runReads, rendered>>
  /\ UNCHANGED <<valVars, anaVars, api_key, uploaded_file, question, analyze,
                 analyzer, genai, invoked, requests, initError>>

\* Variant: the outcome of the validation is not looked at.
ProceedsAlways(r) == TRUE

\* line 173: if not is_valid ... else
ProceedsToAnalysis(r) == r.ok

\* lines 164-175: the button handler up to the end of the validation
Button(s) ==
  /\ pc[s] = "button"
  /\ IF ~analyze[s]
       THEN /\ EndRun(s)
            /\ UNCHANGED <<is_valid, image, reads, runReads, rendered>>
     ELSE IF api_key[s] = <<>>
       THEN /\ EndRun(s)
            /\ Render(s, "error", <<"Please provide your API key.">>)
            /\ UNCHANGED <<is_valid, image, reads, runReads>>
     ELSE IF uploaded_file[s] = None
       THEN /\ EndRun(s)
            /\ Render(s, "error", <<"Please upload an image.">>)
            /\ UNCHANGED <<is_valid, image, reads, runReads>>
     ELSE IF Strip(question[s]) = <<>>
       THEN /\ EndRun(s)
            /\ Render(s, "error", <<"Please enter a question.">>)
            /\ UNCHANGED <<is_valid, image, reads, runReads>>
     ELSE LET r == validate_image(uploaded_file[s]) IN
       /\ is_valid' = [is_valid EXCEPT ![s] = r.ok]
       /\ image' = [image EXCEPT ![s] = r.image]
       /\ reads' = [reads EXCEPT ![s] = @ + r.opens]
       /\ runReads' = [runReads EXCEPT ![s] = @ + r.opens]
       /\ IF ProceedsToAnalysis(r)
            THEN /\ pc' = [pc EXCEPT ![s] = "configure"]
                 /\ UNCHANGED rendered
            ELSE /\ EndRun(s)
                 /\ Render(s, "error", r.msg)
  /\ UNCHANGED <<valVars, anaVars, api_key, uploaded_file, question, analyze,
                 analyzer, genai, invoked, requests, initError>>

\* lines 18-20 and 188-189: the constructor logs and re-raises, main()
\* renders the error and the run ends.
InitFails(s, diag) ==
  /\ initError' = [initError EXCEPT ![s] = [diag |-> diag]]
  /\ Render(s, "error", <<"(no entry) Error: ">> \o diag)
  /\ EndRun(s)

\* genai.configure(api_key=...): sets the configuration of the module-wide
\* client manager and drops the clients it had made.
GenaiConfigure(key) == [api_key |-> key, client |-> None]

\* line 15: genai.configure(api_key=api_key)
Configure(s) ==
  /\ pc[s] = "configure"
  /\ \/ /\ genai' = GenaiConfigure(api_key[s])
        /\ pc' = [pc EXCEPT ![s] = "model"]
        /\ UNCHANGED <<rendered, initError>>
     \/ /\ \E d \in InitDiags : InitFails(s, d)
        /\ UNCHANGED genai
  /\ UNCHANGED <<valVars, anaVars, api_key, uploaded_file, question, analyze,
                 is_valid, image, analyzer, reads, runReads, invoked,
                 requests>>

\* line 16: self.model = genai.GenerativeModel('gemini-1.5-flash').  The
\* model object starts without a client; key is the credential the
\* constructor was called with.
Model(s) ==
  /\ pc[s] = "model"
  /\ \/ /\ analyzer' = [analyzer EXCEPT ![s] =
                          [model |-> [name |-> "gemini-1.5-flash",
                                      client |-> None],
                           key |-> api_key[s]]]
        /\ pc' = [pc EXCEPT ![s] = "analyze"]
        /\ UNCHANGED <<rendered, initError>>
     \/ /\ \E d \in InitDiags : InitFails(s, d)
        /\ UNCHANGED analyzer
  /\ UNCHANGED <<valVars, anaVars, api_key, uploaded_file, question, analyze,
                 is_valid, image, genai, reads, runReads, invoked, requests>>

\* The client generate_content talks through: the model's own one if it has
\* one, else the default client of the module, made from the module's
\* current configuration when there is none.
DefaultClient(g) == IF g.client # None THEN g.client
                    ELSE [api_key |-> g.api_key]

ClientOf(model, g) == IF model.client # None THEN model.client
                      ELSE DefaultClient(g)

\* lines 181-187 with 22-31: analyzer.analyze_image(image, question) and the
\* rendering of its outcome
Analyze(s) ==
  /\ pc[s] = "analyze"
  /\ \E remote \in AppRemotes :
       LET r == analyze_image(image[s], question[s], remote)
           c == ClientOf(analyzer[s].model, genai)
       IN
       /\ invoked' = [invoked EXCEPT ![s] = @ + 1]
       /\ IF r.calls > 0
            THEN /\ genai' = [genai EXCEPT !.client = c]
                 /\ analyzer' = [analyzer EXCEPT ![s].model.client = c]
                 /\ requests' = [requests EXCEPT ![s] =
                                   [prompt |-> Prompt(question[s]),
                                    image |-> image[s],
                                    api_key |-> c.api_key]]
            ELSE UNCHANGED <<genai, analyzer, requests>>
       /\ Render(s, IF r.success THEN "success" ELSE "error", r.result)
  /\ EndRun(s)
  /\ UNCHANGED <<valVars, anaVars, api_key, uploaded_file, question, analyze,
                 is_valid, image, reads, runReads, initError>>

Init ==
  /\ vin = None /\ vout = None
  /\ ain = None /\ aout = None
  /\ AppInit

Next ==
  \E s \in Sessions :
    \/ SetApiKey(s)
    \/ Upload(s)
    \/ RemoveUpload(s)
    \/ SetQuestion(s)
    \/ ClickAnalyze(s)
    \/ Preview(s)
    \/ Button(s)
    \/ Configure(s)
    \/ Model(s)
    \/ Analyze(s)

Spec == Init /\ [][Next]_vars

\* ========================================================================
\* Properties of validate_image (SpecValidate)
\* ========================================================================
Validated == vout # None
Returned  == Validated /\ ~vout.raised

SizeMsg    == <<"File size exceeds 10MB.">>
InvalidPfx == <<"Invalid image file: ">>
SuccessMsg == <<"Image validated successfully.">>

\* C1: a handle whose declared size is greater than 10*1024*1024 is rejected
\* with (False, None, "File size exceeds 10MB.") whatever its content, and
\* Image.open is never called on it; a handle of exactly 10*1024*1024 bytes
\* is not rejected for its size.
C1_OversizeRejectedBeforeDecode ==
  (Validated /\ vin # None /\ vin.hasSize) =>
     /\ vin.size > 10 * 1024 * 1024 =>
          /\ ~vout.raised
          /\ vout.ok = FALSE /\ vout.image = None /\ vout.msg = SizeMsg
          /\ vout.opens = 0
     /\ vin.size = 10 * 1024 * 1024 =>
          /\ ~vout.raised
          /\ vout.msg # SizeMsg
          /\ vout.opens = 1

C1_Witness ==
  /\ Validated /\ vin # None /\ vin.hasSize
  /\ vin.size = 10 * 1024 * 1024 + 1
  /\ vin.content.kind = "img" /\ vin.content.mode = "RGB"
  /\ vin.content.loadable
  /\ vout.msg = SizeMsg

C3_AlphaOrPaletteBecomesRGB ==
  (Returned /\ vout.ok) =>
     /\ vout.image.mode \notin (AlphaModes \cup PaletteModes)
     /\ vin.content.mode \in (AlphaModes \cup PaletteModes) =>
          /\ vout.image.mode = "RGB"
          /\ vout.image.dims = vin.content.dims

\* C4: an image that decodes in mode RGB is returned unchanged with the
\* message "Image validated successfully."; the mode normalisation applied
\* to the image of any valid outcome gives that image back.
C4_RGBUnchangedAndIdempotent ==
  Validated =>
    /\ (/\ vin # None /\ vin.hasSize /\ vin.size <= 10 * 1024 * 1024
        /\ vin.content.kind = "img" /\ vin.content.mode = "RGB") =>
         /\ ~vout.raised /\ vout.ok
         /\ vout.image = [mode |-> "RGB", dims |-> vin.content.dims,
                          px |-> vin.content.px,
                          loadable |-> vin.content.loadable]
         /\ vout.msg = SuccessMsg
    /\ (~vout.raised /\ vout.ok) =>
         /\ vout.msg = SuccessMsg
         /\ Normalize(vout.image) = [raised |-> FALSE, image |-> vout.image]

C4_Witness ==
  /\ Validated /\ vin # None /\ vin.hasSize /\ vin.size = 10 * 1024 * 1024 - 1
  /\ vin.content.kind = "img" /\ vin.content.mode = "RGB"
  /\ vin.content.px = <<1, 0, 1>>
  /\ ~vout.raised /\ vout.ok /\ vout.image.px = <<1, 0, 1>>
  /\ vout.image.mode = "RGB"

\* C8: validate_image(None) returns (False, None, "No file uploaded.") as a
\* normal value, reading no attribute of the file and opening nothing.
C8_NoFileIsInvalidOutcome ==
  (Validated /\ vin = None) =>
     /\ ~vout.raised
     /\ vout.ok = FALSE /\ vout.image = None
     /\ vout.msg = <<"No file uploaded.">>
     /\ ~vout.sizeRead /\ vout.opens = 0

C8_Witness ==
  /\ Validated /\ vin = None
  /\ ~vout.raised /\ vout.msg = <<"No file uploaded.">>

\* ========================================================================
\* Properties of analyze_image (SpecAnalyze)
\* ========================================================================
Analyzed == aout # None

NoResponseMsg == <<"No response from model.">>
ErrorPfx      == <<"Error: ">>

\* C5: whatever fails in the remote call (building the request, the call,
\* reading the response text), analyze_image does not raise, returns
\* (False, "Error: " + diagnostic) with a non-empty message, and has called
\* the model at most once.
C5_RemoteFailureIsFailureOutcome ==
  Analyzed =>
    /\ ~aout.raised
    /\ aout.calls <= 1
    /\ ain.remote.fault # "none" =>
         /\ aout.success = FALSE
         /\ aout.result = ErrorPfx \o ain.remote.diag
         /\ aout.result # <<>>

C5_Witness ==
  /\ Analyzed /\ ain.remote.fault = "call" /\ ain.remote.diag = <<>>
  /\ ~aout.raised /\ aout.success = FALSE /\ aout.result = ErrorPfx
  /\ aout.calls = 1

\* C6: when the remote call completes, the outcome is (True, text) exactly
\* when the text is non-empty and (False, "No response from model.") exactly
\* when it is empty; a success never has an empty payload, and the
\* empty-response message is the message of no transport error.
C6_TextDecidesOutcome ==
  Analyzed =>
    /\ ~aout.raised
    /\ ain.remote.fault = "none" =>
         /\ aout.success <=> (ain.remote.text # <<>>)
         /\ aout.success => aout.result = ain.remote.text
         /\ ~aout.success => aout.result = NoResponseMsg
    /\ aout.success => aout.result # <<>>
    /\ (~aout.success /\ aout.result = NoResponseMsg) <=>
         (ain.remote.fault = "none" /\ ain.remote.text = <<>>)
    /\ ain.remote.fault # "none" =>
         (StartsWith(aout.result, ErrorPfx)
            /\ ~StartsWith(NoResponseMsg, ErrorPfx))

C6_Witness ==
  /\ Analyzed /\ ain.remote.fault = "none"
  /\ ain.remote.text = <<"No response from model.">>
  /\ ~aout.raised /\ aout.success /\ aout.result = NoResponseMsg

\* ========================================================================
\* Properties of main() (Spec)
\* ========================================================================
LastBox(s) == rendered[s][Len(rendered[s])]

\* C7: in a run of the Analyze action, analyze_image is called only after
\* validate_image accepted the current upload and the constructor returned;
\* when the file is missing or invalid, or the constructor raises, it is not
\* called in that run, and the constructor's error is rendered with its
\* diagnostic.
C7_AnalyzeOnlyAfterValidateAndInit ==
  \A s \in Sessions :
    /\ invoked[s] <= 1
    /\ pc[s] \in {"configure", "model", "analyze"} =>
         /\ invoked[s] = 0
         /\ analyze[s]
         /\ is_valid[s] /\ validate_image(uploaded_file[s]).ok
    /\ pc[s] = "analyze" => (analyzer[s] # None /\ initError[s] = None)
    /\ invoked[s] > 0 =>
         /\ analyze[s]
         /\ is_valid[s] /\ validate_image(uploaded_file[s]).ok
         /\ image[s] = validate_image(uploaded_file[s]).image
         /\ analyzer[s] # None /\ initError[s] = None
    /\ requests[s] # None => invoked[s] > 0
    /\ initError[s] # None =>
         /\ invoked[s] = 0 /\ requests[s] = None
         /\ pc[s] = "idle"
         /\ LastBox(s) =
              Box("error", <<"(no entry) Error: ">> \o initError[s].diag)

C7_Witness ==
  /\ pc["s1"] = "idle" /\ invoked["s1"] = 1 /\ requests["s1"] # None
  /\ is_valid["s1"] /\ analyzer["s1"] # None
  /\ pc["s2"] = "idle" /\ analyze["s2"] /\ is_valid["s2"]
  /\ initError["s2"] # None /\ invoked["s2"] = 0

\* C9: with two sessions whose analyzers are constructed with different
\* credentials and whose steps interleave, every remote request of
\* analyze_image goes out under the credential its own analyzer was
\* constructed with.
C9_RequestUsesOwnCredential ==
  \A s \in Sessions :
    requests[s] # None => requests[s].api_key = analyzer[s].key

\* C10 (as stated): a handle is decoded at most once over its lifetime,
\* the preview and the Analyze action counted together.
C10_HandleReadAtMostOnce ==
  \A s \in Sessions : reads[s] <= 1

\* C10 (amended): one validate_image call decodes the handle at most once,
\* and one script run decodes the current handle at most twice: once in the
\* preview and, only when the button was pressed and key, file and question
\* are present, once more in the Analyze action; later runs decode the same
\* handle again.
C10_HandleReadAtMostTwicePerRun ==
  \A s \in Sessions :
    /\ validate_image(uploaded_file[s]).opens <= 1
    /\ runReads[s] <= 2
    /\ runReads[s] <= reads[s]
    /\ runReads[s] > 0 => uploaded_file[s] # None
    /\ runReads[s] = 2 =>
         /\ analyze[s] /\ api_key[s] # <<>> /\ Strip(question[s]) # <<>>
         /\ pc[s] \notin {"preview", "button"}

C10_Witness ==
  \E s \in Sessions :
    /\ pc[s] = "idle" /\ runReads[s] = 2 /\ reads[s] = 3
    /\ invoked[s] = 1

====
